---- MODULE Spec2Model ----
(***************************************************************************)
(* Model of the chunked relay of src/yt.py: Streamer.get_total_chunks,     *)
(* Streamer.fetch_chunk and the async generator Streamer.stream_file.      *)
(*                                                                         *)
(* Spec and FairSpec follow one relay session step by step.  The upstream  *)
(* server is the environment: each HEAD and each ranged GET is answered    *)
(* nondeterministically (any status, an empty or non-empty body, or a      *)
(* transport failure/timeout, which httpx reports by raising).             *)
(*                                                                         *)
(* RegSpec is the service around it: the endpoints /youtube, /info and     *)
(* /stream, the global registry `database`, and the generators that        *)
(* /stream creates, running concurrently.                                  *)
(***************************************************************************)
EXTENDS Integers, Sequences, FiniteSets, TLC

(* ---------------------------- bounds ----------------------------------- *)
\* largest chunk count a probed resource may have
MaxChunks == 4
\* cap on the cursor for a session of unknown size (its loop has no exit)
MaxCursor == 4
\* number of distinct stream ids new_uid can hand out
NumIds == 2
\* number of relay sessions that can be open at once
MaxSessions == 2
\* largest chunk count of a resource relayed by a concurrent session
SessMaxChunks == 1
\* cap on the cursor of a concurrent session of unknown size
SessMaxCursor == 1

(* ------------------------ program constants ---------------------------- *)
chunk_size == 1048576

\* Python's None for `total`
None == -1

\* Content-Length header of the HEAD response: missing, "", or not a number
NoHeader == -1
EmptyHeader == -2
BadHeader == -3

VARIABLES
    pc,         \* position of stream_file
    total,      \* local `total`
    received,   \* local `received`
    c_id,       \* local `c_id`
    i,          \* loop variable of the cleanup pass
    t_cur,      \* local `t_cur`: handle (position in fetches) of the task
    t_next,     \* local `t_next`
    t_miss,     \* the fetch awaited inline by the cleanup pass
    fetches,    \* every fetch_chunk call issued so far, in issue order
    observed,   \* what each completed await handed to the session
    output,     \* the blocks yielded to the consumer, in order
    err,        \* the exception that ended the generator, if any
    database,   \* global `database`: stream_id -> {file_url, file_name}
    reply,      \* the response the last endpoint call returned
    sessions    \* the stream_file generators created by /stream/{id}

\* the relay session studied on its own
relayvars == <<pc, total, received, c_id, i, t_cur, t_next, t_miss,
               fetches, observed, output, err>>

\* the registry, the endpoints and the sessions they create
regvars == <<database, reply, sessions>>

vars == <<pc, total, received, c_id, i, t_cur, t_next, t_miss,
          fetches, observed, output, err, database, reply, sessions>>

(* ------------------------- pure functions ------------------------------ *)

\* Content-Length values the upstream may report
SizeCandidates ==
    {0, 3000000}
      \cup {k * chunk_size : k \in 1..MaxChunks}
      \cup {(k - 1) * chunk_size + 1 : k \in 1..MaxChunks}

\* (int(size) + self.chunk_size - 1) // self.chunk_size
CeilChunks(size) == (size + chunk_size - 1) \div chunk_size

Sizes == {s \in SizeCandidates : CeilChunks(s) <= MaxChunks}

HeadResponses ==
    [neterr : {TRUE}, len : {NoHeader}]
      \cup [neterr : {FALSE},
            len : {NoHeader, EmptyHeader, BadHeader} \cup Sizes]

\* get_total_chunks: no exception handler around client.head or int(size)
GetTotalChunks(head) ==
    IF head.neterr THEN [exc |-> "probe_net", val |-> None]
    ELSE IF head.len \in {NoHeader, EmptyHeader}
         THEN [exc |-> "none", val |-> None]
    ELSE IF head.len = BadHeader
         THEN [exc |-> "probe_value", val |-> None]
    ELSE [exc |-> "none", val |-> CeilChunks(head.len)]

Statuses == {200, 206, 416, 503}

GetResponses ==
    [neterr : {TRUE}, status : {0}, body : {"empty"}]
      \cup [neterr : {FALSE}, status : Statuses, body : {"data", "empty"}]

\* fetch_chunk: r.content for 200/206, None otherwise; client.get may raise
FetchChunk(resp) ==
    IF resp.neterr THEN "raise"
    ELSE IF resp.status \in {200, 206} THEN resp.body
    ELSE "None"

\* truth value of `cur`, `nxt`, `miss`: None and b"" are both falsy
Truthy(v) == v = "data"

\* truth value of `total` in `if total:`
TruthyTotal(t) == t # None /\ t # 0

LoopCondMut(t, c) == t = None \/ c <= t

\* while total is None or c_id < total
LoopCond(t, c) == t = None \/ c < t

\* the two tasks of an iteration, in creation order: t_next, then t_cur
PairIndices(c) == <<c + 1, c>>

NextCursorMut(c) == c + 1

NextCursorStuck(c) == c

\* c_id += 2
NextCursor(c) == c + 2

NeedsRepairMut(j, rec) == TRUE

\* if i not in received
NeedsRepair(j, rec) == j \notin rec

TaskReadyMut(k) == TRUE

\* `await t` resumes only when the task has finished
TaskReady(k) == fetches[k].st = "done"

NewTask(idx, pass) ==
    [idx |-> idx, pass |-> pass, st |-> "running", res |-> "pending"]

Obs(idx, pass, res) == [idx |-> idx, pass |-> pass, res |-> res]

Out(idx, pass) == [idx |-> idx, pass |-> pass]

InFlight == {k \in DOMAIN fetches : fetches[k].st = "running"}

(* ------------------- registry and endpoint data ------------------------ *)

\* values of uuid.uuid4()
Ids == 1..NumIds

SessionIds == 1..MaxSessions

\* direct CDN URLs the extractor may hand back for the audio rendition
AudioUrls == {"cdnA"}

\* ... and for the video rendition
VideoUrls == {"cdnV"}

Urls == AudioUrls \cup VideoUrls

\* a missing or None "url"
NoUrl == "none"

VideoIds == {"vidA"}

\* f"{video_id}.mp3", f"{meta.get('id')}.{ext}"
FileName(vid, ext) == <<vid, ".", ext>>

NoName == <<>>

\* f"http://{pub_ip}:{PORT}/stream/{stream_id}"
StreamUrl(id) == <<"/stream/", id>>

\* "mp4" if video else "mp3"
Ext(video) == IF video THEN "mp4" ELSE "mp3"

Descriptor(url, name) == [file_url |-> url, file_name |-> name]

PutMut(db, id, desc) == db

\* database[stream_id] = {...}
Put(db, id, desc) == (id :> desc) @@ db

NewUidsMut(db) == Ids

\* new_uid(): a uuid4 is taken to differ from every id handed out before
NewUids(db) == Ids \ DOMAIN db

Keys == {"nokey", "goodkey", "badkey"}

\* get_user: the query key must be one of api_keys
GetUser(api_key) == api_key = "goodkey"

\* validate_api_key: the query parameter wins over the header
ValidateApiKey(api_key_param, api_key_header) ==
    LET supplied == IF api_key_param # "nokey" THEN api_key_param
                    ELSE api_key_header
    IN supplied = "goodkey"

\* result of extract_metadata: {} or the selected fields
Metas(want_video) ==
    [empty : {TRUE}, id : {"None"}, stream_url : {NoUrl}]
      \cup [empty : {FALSE}, id : VideoIds,
            stream_url : (IF want_video THEN VideoUrls ELSE AudioUrls)
                            \cup {NoUrl}]

\* result of one ydl.extract_info call of /info
InfoResults(urls) ==
    [raises : {TRUE}, url : {NoUrl}]
      \cup [raises : {FALSE}, url : urls \cup {NoUrl}]

\* what an endpoint returned: HTTP status and the fields of the JSON body
Response(ep, http, status, error, message, links) ==
    [ep |-> ep, http |-> http, status |-> status, error |-> error,
     message |-> message, links |-> links, sid |-> 0, sess |-> 0]

NoResponse == Response("none", 0, "none", "none", "none", <<>>)

\* {} (the search endpoint found nothing or failed)
EmptyReply == Response("youtube", 200, "none", "none", "none", <<>>)

\* HTTP 403 raised by the Security dependency
Forbidden == Response("youtube", 403, "none", "none", "none", <<>>)

InfoErrorMut(message) ==
    Response("info", 401, "none", "none", message, <<>>)

\* {"status": "error", "message": ...}
InfoError(message) == Response("info", 200, "error", "none", message, <<>>)

\* {"status": "success", "audio_url": ..., "video_url": ...}
InfoSuccess(audio_id, video_id) ==
    Response("info", 200, "success", "none", "none",
             <<StreamUrl(audio_id), StreamUrl(video_id)>>)

\* {"error": "Invalid stream request!"}
InvalidStream(id) ==
    [Response("stream", 200, "none", "Invalid stream request!", "none", <<>>)
        EXCEPT !.sid = id]

\* StreamingResponse(streamer.stream_file(file_url), ...)
Streaming(id, s) ==
    [Response("stream", 200, "none", "none", "none", <<>>)
        EXCEPT !.sid = id, !.sess = s]

StreamValidMut(db, id) == id \in DOMAIN db

\* database.get(stream_id) found, with a file_url and a file_name
StreamValid(db, id) ==
    /\ id \in DOMAIN db
    /\ db[id].file_url # NoUrl
    /\ db[id].file_name # NoName


\* a generator that has not been created
IdleSession ==
    [pc |-> "idle", url |-> NoUrl, total |-> None, c_id |-> 0,
     received |-> {}, i |-> 0, out |-> <<>>]

\* stream_file(file_url) before its first step
NewSession(url) == [IdleSession EXCEPT !.pc = "start", !.url = url]

MarkReceivedShared(ss, s, idx) ==
    [t \in DOMAIN ss |-> [ss[t] EXCEPT !.received = @ \cup {idx}]]

\* received.add(idx) in the generator s
MarkReceived(ss, s, idx) == [ss EXCEPT ![s].received = @ \cup {idx}]

\* yield of chunk idx by the generator s
Emit(ss, s, idx) == [ss EXCEPT ![s].out = Append(@, idx)]

\* HEAD answers for the resources the concurrent sessions relay
SessHeadResponses ==
    {h \in HeadResponses :
        h.len \in Sizes => CeilChunks(h.len) <= SessMaxChunks}

(* ----------------------------- state ----------------------------------- *)

Init ==
    /\ pc = "start"
    /\ total = None
    /\ received = {}
    /\ c_id = 0
    /\ i = 0
    /\ t_cur = 0
    /\ t_next = 0
    /\ t_miss = 0
    /\ fetches = <<>>
    /\ observed = <<>>
    /\ output = <<>>
    /\ err = "none"
    /\ database = <<>>
    /\ reply = NoResponse
    /\ sessions = [s \in SessionIds |-> IdleSession]

\* total = await self.get_total_chunks(file_url); received = set(); c_id = 0
Probe ==
    /\ pc = "start"
    /\ \E head \in HeadResponses :
         LET r == GetTotalChunks(head) IN
           IF r.exc # "none"
           THEN /\ pc' = "error"
                /\ err' = r.exc
                /\ total' = total
           ELSE /\ pc' = "loop"
                /\ err' = err
                /\ total' = r.val
    /\ received' = {}
    /\ c_id' = 0
    /\ UNCHANGED <<i, t_cur, t_next, t_miss, fetches, observed, output>>
    /\ UNCHANGED regvars

\* loop test true: create t_next and t_cur
SpawnPair ==
    /\ pc = "loop"
    /\ LoopCond(total, c_id)
    /\ total = None => c_id < MaxCursor
    /\ LET p == PairIndices(c_id) IN
         fetches' = fetches \o <<NewTask(p[1], "main"), NewTask(p[2], "main")>>
    /\ t_next' = Len(fetches) + 1
    /\ t_cur' = Len(fetches) + 2
    /\ pc' = "await_cur"
    /\ UNCHANGED <<total, received, c_id, i, t_miss, observed, output, err>>
    /\ UNCHANGED regvars

\* the upstream answers one request that is in flight
TaskFinish ==
    \E k \in InFlight : \E resp \in GetResponses :
      /\ fetches' = [fetches EXCEPT ![k].st = "done", ![k].res = FetchChunk(resp)]
      /\ UNCHANGED <<pc, total, received, c_id, i, t_cur, t_next, t_miss,
                     observed, output, err>>
      /\ UNCHANGED regvars

\* cur = await t_cur; if cur: received.add(c_id); yield cur
AwaitCur ==
    /\ pc = "await_cur"
    /\ TaskReady(t_cur)
    /\ LET cur == fetches[t_cur].res IN
         /\ observed' = Append(observed, Obs(c_id, "main", cur))
         /\ IF cur = "raise"
            THEN /\ pc' = "error"
                 /\ err' = "fetch"
                 /\ UNCHANGED <<received, output>>
            ELSE /\ pc' = "await_next"
                 /\ err' = err
                 /\ IF Truthy(cur)
                    THEN /\ received' = received \cup {c_id}
                         /\ output' = Append(output, Out(c_id, "main"))
                    ELSE UNCHANGED <<received, output>>
    /\ UNCHANGED <<total, c_id, i, t_cur, t_next, t_miss, fetches>>
    /\ UNCHANGED regvars

\* nxt = await t_next; if nxt: received.add(c_id + 1); yield nxt; c_id += 2
AwaitNext ==
    /\ pc = "await_next"
    /\ TaskReady(t_next)
    /\ LET nxt == fetches[t_next].res IN
         /\ observed' = Append(observed, Obs(c_id + 1, "main", nxt))
         /\ IF nxt = "raise"
            THEN /\ pc' = "error"
                 /\ err' = "fetch"
                 /\ UNCHANGED <<received, output, c_id>>
            ELSE /\ pc' = "loop"
                 /\ err' = err
                 /\ c_id' = NextCursor(c_id)
                 /\ IF Truthy(nxt)
                    THEN /\ received' = received \cup {c_id + 1}
                         /\ output' = Append(output, Out(c_id + 1, "main"))
                    ELSE UNCHANGED <<received, output>>
    /\ UNCHANGED <<total, i, t_cur, t_next, t_miss, fetches>>
    /\ UNCHANGED regvars

\* loop test false: fall through to the cleanup pass
ExitLoop ==
    /\ pc = "loop"
    /\ ~LoopCond(total, c_id)
    /\ pc' = "cleanup"
    /\ i' = 0
    /\ UNCHANGED <<total, received, c_id, t_cur, t_next, t_miss,
                   fetches, observed, output, err>>
    /\ UNCHANGED regvars

\* for i in range(total): i is in received, nothing to do
CleanupSkip ==
    /\ pc = "cleanup"
    /\ TruthyTotal(total)
    /\ i < total
    /\ ~NeedsRepair(i, received)
    /\ i' = i + 1
    /\ UNCHANGED <<pc, total, received, c_id, t_cur, t_next, t_miss,
                   fetches, observed, output, err>>
    /\ UNCHANGED regvars

\* for i in range(total): if i not in received: fetch_chunk(file_url, i)
CleanupFetch ==
    /\ pc = "cleanup"
    /\ TruthyTotal(total)
    /\ i < total
    /\ NeedsRepair(i, received)
    /\ fetches' = Append(fetches, NewTask(i, "repair"))
    /\ t_miss' = Len(fetches) + 1
    /\ pc' = "await_miss"
    /\ UNCHANGED <<total, received, c_id, i, t_cur, t_next,
                   observed, output, err>>
    /\ UNCHANGED regvars

\* miss = await ...; if miss: yield miss
AwaitMiss ==
    /\ pc = "await_miss"
    /\ TaskReady(t_miss)
    /\ LET miss == fetches[t_miss].res IN
         /\ observed' = Append(observed, Obs(i, "repair", miss))
         /\ IF miss = "raise"
            THEN /\ pc' = "error"
                 /\ err' = "fetch"
                 /\ UNCHANGED <<output, i>>
            ELSE /\ pc' = "cleanup"
                 /\ err' = err
                 /\ i' = i + 1
                 /\ IF Truthy(miss)
                    THEN output' = Append(output, Out(i, "repair"))
                    ELSE output' = output
    /\ UNCHANGED <<total, received, c_id, t_cur, t_next, t_miss, fetches>>
    /\ UNCHANGED regvars

\* `if total:` false, or range(total) exhausted: the generator returns
CleanupDone ==
    /\ pc = "cleanup"
    /\ ~TruthyTotal(total) \/ i >= total
    /\ pc' = "done"
    /\ UNCHANGED <<total, received, c_id, i, t_cur, t_next, t_miss,
                   fetches, observed, output, err>>
    /\ UNCHANGED regvars

Next ==
    \/ Probe
    \/ SpawnPair
    \/ TaskFinish
    \/ AwaitCur
    \/ AwaitNext
    \/ ExitLoop
    \/ CleanupSkip
    \/ CleanupFetch
    \/ AwaitMiss
    \/ CleanupDone

Spec == Init /\ [][Next]_vars

\* the steps of the generator itself, which the event loop keeps scheduling
\* while the consumer keeps reading
SessionStep ==
    \/ Probe
    \/ SpawnPair
    \/ AwaitCur
    \/ AwaitNext
    \/ ExitLoop
    \/ CleanupSkip
    \/ CleanupFetch
    \/ AwaitMiss
    \/ CleanupDone

\* every request returns (httpx answers or times out after 10 s) and a
\* runnable generator is resumed
FairSpec == Spec /\ WF_vars(TaskFinish) /\ WF_vars(SessionStep)

(* ------------------------ endpoints and registry ----------------------- *)

\* /youtube up to the point where the stream id is drawn: the reply of a
\* request that fails, or the descriptor to register
YoutubeResult(api_key, video, meta) ==
    IF ~GetUser(api_key) THEN [reply |-> Forbidden, store |-> <<>>]
    ELSE IF meta.empty THEN [reply |-> EmptyReply, store |-> <<>>]
    ELSE [reply |-> NoResponse,
          store |-> <<Descriptor(meta.stream_url,
                                 FileName(meta.id, Ext(video)))>>]

\* GET /youtube: resolve, extract, register one stream
Youtube ==
    /\ \E r \in {YoutubeResult(api_key, video, meta) :
                    api_key \in Keys, video \in {FALSE},
                    meta \in Metas(FALSE)}
               \cup {YoutubeResult(api_key, video, meta) :
                    api_key \in Keys, video \in {TRUE},
                    meta \in Metas(TRUE)} :
         IF r.store = <<>>
         THEN /\ reply' = r.reply
              /\ database' = database
         ELSE \E stream_id \in NewUids(database) :
              /\ database' = Put(database, stream_id, r.store[1])
              /\ reply' = Response("youtube", 200, "none", "none", "none",
                                   <<StreamUrl(stream_id)>>)
    /\ UNCHANGED sessions
    /\ UNCHANGED relayvars

\* /info up to the point where the stream ids are drawn: the error reply,
\* or the two descriptors to register
InfoResult(video_id, api_key, x_api_key, audio_info, video_info) ==
    IF ~ValidateApiKey(api_key, x_api_key)
    THEN [reply |-> InfoError("Not authenticated"), store |-> <<>>]
    ELSE IF audio_info.raises \/ video_info.raises
    THEN [reply |-> InfoError("yt_dlp failed"), store |-> <<>>]
    ELSE IF audio_info.url = NoUrl
    THEN [reply |-> InfoError("Failed to get audio URL"), store |-> <<>>]
    ELSE IF video_info.url = NoUrl
    THEN [reply |-> InfoError("Failed to get video URL"), store |-> <<>>]
    ELSE [reply |-> NoResponse,
          store |-> <<Descriptor(audio_info.url, FileName(video_id, "mp3")),
                      Descriptor(video_info.url, FileName(video_id, "mp4"))>>]

\* GET /info/{video_id}: register an audio and a video stream
Info ==
    /\ \E r \in {InfoResult(video_id, api_key, x_api_key, audio_info, video_info) :
                    video_id \in VideoIds, api_key \in Keys, x_api_key \in Keys,
                    audio_info \in InfoResults(AudioUrls),
                    video_info \in InfoResults(VideoUrls)} :
         IF r.store = <<>>
         THEN /\ reply' = r.reply
              /\ database' = database
         ELSE \E audio_stream_id \in NewUids(database) :
              \E video_stream_id \in NewUids(database) \ {audio_stream_id} :
              /\ database' = Put(Put(database, audio_stream_id, r.store[1]),
                                 video_stream_id, r.store[2])
              /\ reply' = InfoSuccess(audio_stream_id, video_stream_id)
    /\ UNCHANGED sessions
    /\ UNCHANGED relayvars

\* GET /stream/{stream_id}: look the id up and hand out a generator
Stream ==
    /\ \E stream_id \in Ids :
         IF ~StreamValid(database, stream_id)
         THEN /\ reply' = InvalidStream(stream_id)
              /\ sessions' = sessions
         ELSE \E s \in SessionIds :
              /\ sessions[s].pc = "idle"
              /\ \A t \in SessionIds : t < s => sessions[t].pc # "idle"
              /\ sessions' = [sessions EXCEPT
                                 ![s] = NewSession(database[stream_id].file_url)]
              /\ reply' = Streaming(stream_id, s)
    /\ UNCHANGED database
    /\ UNCHANGED relayvars

\* the generator s after a value was awaited: raise, or deliver and go on
Resume(s, idx, val, next_pc, next_c) ==
    IF val = "raise"
    THEN sessions' = [sessions EXCEPT ![s].pc = "error"]
    ELSE LET moved == [sessions EXCEPT ![s].pc = next_pc, ![s].c_id = next_c]
         IN IF Truthy(val)
            THEN sessions' = Emit(MarkReceived(moved, s, idx), s, idx)
            ELSE sessions' = moved

\* total = await self.get_total_chunks(file_url)
SessProbe ==
    /\ \E s \in SessionIds :
       \E r \in {GetTotalChunks(head) : head \in SessHeadResponses} :
         /\ sessions[s].pc = "start"
         /\ sessions' = [sessions EXCEPT
               ![s].pc = IF r.exc # "none" THEN "error" ELSE "loop",
               ![s].total = r.val]
    /\ UNCHANGED <<database, reply>>
    /\ UNCHANGED relayvars

\* loop test of the generator s: create the two tasks, or leave the loop
SessLoop ==
    /\ \E s \in SessionIds :
         /\ sessions[s].pc = "loop"
         /\ sessions[s].total = None => sessions[s].c_id < SessMaxCursor
         /\ sessions' = [sessions EXCEPT
               ![s].pc = IF LoopCond(sessions[s].total, sessions[s].c_id)
                         THEN "await_cur" ELSE "cleanup",
               ![s].i = 0]
    /\ UNCHANGED <<database, reply>>
    /\ UNCHANGED relayvars

\* cur = await t_cur; if cur: received.add(c_id); yield cur
SessAwaitCur ==
    /\ \E s \in SessionIds : \E cur \in {FetchChunk(a) : a \in GetResponses} :
         /\ sessions[s].pc = "await_cur"
         /\ Resume(s, sessions[s].c_id, cur,
                   "await_next", sessions[s].c_id)
    /\ UNCHANGED <<database, reply>>
    /\ UNCHANGED relayvars

\* nxt = await t_next; if nxt: received.add(c_id + 1); yield nxt; c_id += 2
SessAwaitNext ==
    /\ \E s \in SessionIds : \E nxt \in {FetchChunk(a) : a \in GetResponses} :
         /\ sessions[s].pc = "await_next"
         /\ Resume(s, sessions[s].c_id + 1, nxt,
                   "loop", NextCursor(sessions[s].c_id))
    /\ UNCHANGED <<database, reply>>
    /\ UNCHANGED relayvars

\* one step of the cleanup pass of the generator s
SessCleanup ==
    /\ \E s \in SessionIds :
         /\ sessions[s].pc = "cleanup"
         /\ sessions' = [sessions EXCEPT ![s] =
               IF ~TruthyTotal(@.total) \/ @.i >= @.total
               THEN [@ EXCEPT !.pc = "done"]
               ELSE IF NeedsRepair(@.i, @.received)
               THEN [@ EXCEPT !.pc = "await_miss"]
               ELSE [@ EXCEPT !.i = @ + 1]]
    /\ UNCHANGED <<database, reply>>
    /\ UNCHANGED relayvars

\* miss = await self.fetch_chunk(file_url, i); if miss: yield miss
SessAwaitMiss ==
    /\ \E s \in SessionIds : \E miss \in {FetchChunk(a) : a \in GetResponses} :
         /\ sessions[s].pc = "await_miss"
         /\ IF miss = "raise"
            THEN sessions' = [sessions EXCEPT ![s].pc = "error"]
            ELSE LET moved == [sessions EXCEPT ![s].pc = "cleanup",
                                               ![s].i = @ + 1]
                 IN IF Truthy(miss)
                    THEN sessions' = Emit(moved, s, sessions[s].i)
                    ELSE sessions' = moved
    /\ UNCHANGED <<database, reply>>
    /\ UNCHANGED relayvars

\* the response of the generator s has completed: its slot is free again
SessClose ==
    /\ \E s \in SessionIds :
         /\ sessions[s].pc \in {"done", "error"}
         /\ sessions' = [sessions EXCEPT ![s] = IdleSession]
    /\ UNCHANGED <<database, reply>>
    /\ UNCHANGED relayvars

RegNext ==
    \/ Youtube
    \/ Info
    \/ Stream
    \/ SessProbe
    \/ SessLoop
    \/ SessAwaitCur
    \/ SessAwaitNext
    \/ SessCleanup
    \/ SessAwaitMiss
    \/ SessClose

\* the service: endpoints, registry and the relay sessions they start
RegSpec == Init /\ [][RegNext]_vars

(* ------------------------ derived observations ------------------------- *)

\* the session knows the chunk count
SizeKnown == pc # "start" /\ total # None

\* the generator has returned or raised
Ended == pc \in {"done", "error"}

\* chunk indices of the output, in emission order
OutIdx == [k \in DOMAIN output |-> output[k].idx]

\* positions in fetches of the requests of one pass
PassFetches(pass) == {k \in DOMAIN fetches : fetches[k].pass = pass}

\* a main-loop await returned None
AbsentSeenMain ==
    \E k \in DOMAIN observed :
        observed[k].pass = "main" /\ observed[k].res = "None"

(* ------------------------------ C1 ------------------------------------- *)
\* C1: with an unknown size, once a main-loop fetch has come back absent the
\* session issues no further fetch (it treats the absence as end-of-stream).
C1_UnknownSizeStopsAtAbsent ==
    [][(pc # "start" /\ total = None /\ AbsentSeenMain)
          => Len(fetches') = Len(fetches)]_vars

(* ------------------------------ C2 ------------------------------------- *)
\* C2: a failed chunk fetch (bad status, transport error, timeout) is only
\* ever an absent chunk; the session never ends in an error because of one.
C2_FetchFailureNeverAborts == ~(pc = "error" /\ err = "fetch")

(* ------------------------------ C3 ------------------------------------- *)
\* C3: a network failure of the header-only request never raises to the
\* session; it proceeds exactly as for a missing length (unknown size).
C3_ProbeNeverRaises == ~(pc = "error" /\ err = "probe_net")

(* ------------------------------ C4 ------------------------------------- *)
\* C4: when the size is known, every index of [0, N) has been attempted at
\* least once by the time the session ends, whatever the fetch outcomes.
C4_Coverage ==
    (SizeKnown /\ Ended) =>
        \A j \in 0..(total - 1) : \E k \in DOMAIN fetches : fetches[k].idx = j

(* ------------------------------ C5 ------------------------------------- *)
\* indices requested by the repair pass, in request order
RepairIdx ==
    LET ks == PassFetches("repair")
        nth[n \in 0..Cardinality(ks)] ==
            IF n = 0 THEN <<>>
            ELSE LET k == CHOOSE x \in ks :
                            Cardinality({y \in ks : y <= x}) = n
                 IN Append(nth[n - 1], fetches[k].idx)
    IN nth[Cardinality(ks)]

RECURSIVE Ascending(_, _)
\* the members of S that are >= lo, in ascending order
Ascending(S, lo) ==
    IF \A x \in S : x < lo THEN <<>>
    ELSE LET m == CHOOSE x \in S : x >= lo /\ \A y \in S : y >= lo => x <= y
         IN <<m>> \o Ascending(S, m + 1)

\* C5: with a known size, a session that has ended has completed normally
\* and its repair pass has requested exactly the indices of [0, N) missing
\* from deliveredSet, each once, in ascending order; an index that is absent
\* again is dropped without error.
C5_RepairExact ==
    (SizeKnown /\ Ended) =>
        /\ pc = "done"
        /\ RepairIdx = Ascending((0..(total - 1)) \ received, 0)

(* ------------------------------ C6 ------------------------------------- *)
\* the main loop's emissions carry strictly increasing chunk indices
MainOutputIncreasing ==
    \A a, b \in DOMAIN output :
        (a < b /\ output[a].pass = "main" /\ output[b].pass = "main")
            => output[a].idx < output[b].idx

\* a step that issues main-loop fetches
StartsPair == Len(fetches') > Len(fetches) /\ fetches'[Len(fetches')].pass = "main"

\* C6: the main loop emits in strictly increasing index order (the current
\* chunk of a pair before its look-ahead partner), and a pair's fetches are
\* started only after both awaits of the previous pair have completed.
C6_MainLoopOrdering ==
    /\ []MainOutputIncreasing
    /\ [][StartsPair =>
            /\ Len(observed) = Len(fetches)
            /\ \A k \in DOMAIN fetches : fetches[k].st = "done"]_vars

\* two pairs have been processed and chunks of both were emitted
C6_Witness ==
    /\ pc = "loop"
    /\ c_id = 4
    /\ OutIdx = <<0, 1, 2, 3>>

(* ------------------------------ C7 ------------------------------------- *)
\* every repaired block comes after every main-loop block
RepairAfterMain ==
    \A a, b \in DOMAIN output :
        (output[a].pass = "repair" /\ output[b].pass = "main") => b < a

\* what the upstream answers in end-to-end scenario 2: indices 0 and 2 are
\* served, index 1 and the out-of-range index 3 are not, every repair
\* request is served
Scenario2Answer(idx, pass) ==
    IF pass = "repair" \/ idx \in {0, 2} THEN "data" ELSE "None"

Scenario2 ==
    /\ SizeKnown
    /\ total = 3
    /\ pc = "done"
    /\ \A k \in DOMAIN fetches :
           fetches[k].res = Scenario2Answer(fetches[k].idx, fetches[k].pass)

\* C7: repaired chunks are appended after all main-loop output whatever
\* their index; in scenario 2 the output is exactly chunk0, chunk2, chunk1.
C7_RepairAppended ==
    /\ RepairAfterMain
    /\ Scenario2 => OutIdx = <<0, 2, 1>>

C7_Witness ==
    /\ Scenario2
    /\ output = <<Out(0, "main"), Out(2, "main"), Out(1, "repair")>>

(* ------------------------------ C8 ------------------------------------- *)
\* never more than two requests in flight, at most one (the repair fetch
\* itself) once the main loop is over
InFlightBounded ==
    /\ Cardinality(InFlight) <= 2
    /\ pc \in {"cleanup", "await_miss", "done"} =>
          /\ Cardinality(InFlight) <= 1
          /\ \A k \in InFlight : fetches[k].pass = "repair"

\* an iteration issues exactly the requests for c_id and c_id + 1, the
\* repair pass one request, each only when nothing is in flight
StartsWhenIdle ==
    Len(fetches') > Len(fetches) =>
        /\ InFlight = {}
        /\ IF pc = "loop"
           THEN /\ Len(fetches') = Len(fetches) + 2
                /\ {fetches'[k].idx : k \in (Len(fetches) + 1)..Len(fetches')}
                      = {c_id, c_id + 1}
           ELSE Len(fetches') = Len(fetches) + 1

\* C8: at most two fetches are in flight at any time; each iteration starts
\* exactly two (cursor and cursor+1), both complete before anything else is
\* started; the repair pass has at most one in flight.
C8_BoundedLookAhead ==
    /\ []InFlightBounded
    /\ [][StartsWhenIdle]_vars

\* the second iteration has both of its requests in flight
C8_Witness ==
    /\ c_id = 2
    /\ pc = "await_cur"
    /\ Cardinality(InFlight) = 2

(* ------------------------------ C9 ------------------------------------- *)
\* every main-loop request for an index of [0, N) was served with data
AllInRangeServed ==
    \A k \in PassFetches("main") :
        fetches[k].idx < total => fetches[k].res = "data"

\* C9: with a known size, if every fetch of an index in [0, N) succeeds in
\* the main loop, the output is exactly chunk 0 .. chunk N-1 in order, each
\* once, and the repair pass issues no fetch.
C9_FailureFreeReconstruction ==
    (SizeKnown /\ pc = "done" /\ AllInRangeServed) =>
        /\ OutIdx = [k \in 1..total |-> k - 1]
        /\ PassFetches("repair") = {}

(* ------------------------------ C10 ------------------------------------ *)
\* C10: no block is emitted for an index >= N and no index >= N enters
\* deliveredSet, whatever the upstream answers to the out-of-range request.
C10_OutOfRangeLookAheadAbsent ==
    SizeKnown =>
        /\ \A k \in DOMAIN output : output[k].idx < total
        /\ \A r \in received : r < total

(* ------------------------------ C11 ------------------------------------ *)
\* C11: for a known even N the main loop performs exactly N/2 iterations
\* whatever the fetch outcomes: a session that has ended left the loop with
\* cursor = N after issuing exactly N main-loop fetches.
C11_PairingCount ==
    (SizeKnown /\ total % 2 = 0 /\ Ended) =>
        /\ c_id = total
        /\ Cardinality(PassFetches("main")) = total

(* ------------------------------ C12 ------------------------------------ *)
\* C12: when the prober reports a length of 0 the session issues no fetch
\* (main loop or repair pass), emits nothing and only runs to its end.
C12_EmptyResource ==
    (SizeKnown /\ total = 0) =>
        /\ fetches = <<>>
        /\ output = <<>>
        /\ pc \in {"loop", "cleanup", "done"}

C12_Witness ==
    /\ SizeKnown
    /\ total = 0
    /\ pc = "done"
    /\ fetches = <<>>

(* ------------------------------ C13 ------------------------------------ *)
\* the number of requests of a known-size session is bounded by N
FetchesBounded ==
    SizeKnown =>
        /\ Cardinality(PassFetches("main")) <= total + 1
        /\ Cardinality(PassFetches("repair")) <= total

\* C13: a session with a known size always ends, whatever the outcome of
\* each fetch, provided every fetch returns: after at most N + 1 main-loop
\* fetches and at most N repair fetches the generator has finished.
C13_KnownSizeTerminates ==
    /\ []FetchesBounded
    /\ SizeKnown ~> Ended

\* a session that needed a repair fetch for every one of its chunks and ended
C13_Witness ==
    /\ SizeKnown
    /\ total >= 3
    /\ pc = "done"
    /\ Cardinality(PassFetches("repair")) = total

(* ------------------------------ C18 ------------------------------------ *)
\* C18: every main-loop fetch the fetcher reports as a success (200 or 206),
\* an empty body included, marks its index delivered, and that index is not
\* requested again by the repair pass.
C18_PresentMeansDelivered ==
    \A k \in DOMAIN observed :
        (observed[k].pass = "main" /\ observed[k].res \in {"data", "empty"}) =>
            /\ observed[k].idx \in received
            /\ \A r \in PassFetches("repair") : fetches[r].idx # observed[k].idx

(* ------------------------------ C19 ------------------------------------ *)
\* C19: with a known size no chunk index is emitted twice over the whole
\* output, and no index is requested more than once per pass (so at most
\* twice in all).
C19_NoDuplicateEmission ==
    SizeKnown =>
        /\ \A a, b \in DOMAIN output : a # b => output[a].idx # output[b].idx
        /\ \A a, b \in DOMAIN fetches :
              (a # b /\ fetches[a].pass = fetches[b].pass)
                  => fetches[a].idx # fetches[b].idx

\* an index was requested in both passes and its repaired block was emitted
C19_Witness ==
    /\ SizeKnown
    /\ pc = "done"
    /\ \E a \in PassFetches("main") : \E b \in PassFetches("repair") :
          /\ fetches[a].idx = fetches[b].idx
          /\ \E k \in DOMAIN output : output[k] = Out(fetches[b].idx, "repair")

(* --------------------- observations of the service --------------------- *)

\* the stream ids named by the relay URLs of a reply
LinkIds(r) == {r.links[k][2] : k \in DOMAIN r.links}

\* the step is a call of endpoint ep (a repeated call that changes nothing
\* is a stuttering step): only endpoints write reply and the registry, only
\* /stream moves a generator out of "idle"
Answers(ep) ==
    /\ reply'.ep = ep
    /\ \/ reply' # reply
       \/ database' # database
       \/ \E s \in SessionIds :
             sessions[s].pc = "idle" /\ sessions'[s].pc # "idle"

\* the registry has no usable descriptor under id
Missing(id) ==
    \/ id \notin DOMAIN database
    \/ database[id].file_url = NoUrl
    \/ database[id].file_name = NoName

(* ------------------------------ C14 ------------------------------------ *)
\* C14: GET /stream/{id} for an id that is not registered, or whose
\* descriptor lacks the remote URL or the filename, returns the body
\* {"error": "Invalid stream request!"}, creates no session (so no probe and
\* no fetch) and leaves the registry unchanged.
C14_RegistryMiss ==
    [][(Answers("stream") /\ Missing(reply'.sid)) =>
          /\ reply' = InvalidStream(reply'.sid)
          /\ sessions' = sessions
          /\ database' = database]_vars

\* a registered id without a remote URL was requested and refused
C14_Witness ==
    /\ reply.ep = "stream"
    /\ reply.error = "Invalid stream request!"
    /\ reply.sid \in DOMAIN database
    /\ database[reply.sid].file_url = NoUrl
    /\ \A s \in SessionIds : sessions[s].pc = "idle"

(* ------------------------------ C15 ------------------------------------ *)
\* C15: a stored descriptor is never modified, overwritten or removed; a
\* resolution registers only ids that were not registered; a relay request
\* gets exactly the stored remote URL, and a request for an id that was
\* never stored is answered not-found.
C15_RegistryStable ==
    [][/\ \A id \in DOMAIN database :
             id \in DOMAIN database' /\ database'[id] = database[id]
       /\ (Answers("youtube") \/ Answers("info")) =>
             LinkIds(reply') \cap DOMAIN database = {}
       /\ (Answers("stream") /\ reply'.sess # 0) =>
             /\ reply'.sid \in DOMAIN database
             /\ sessions'[reply'.sess].url = database[reply'.sid].file_url
       /\ (Answers("stream") /\ reply'.sid \notin DOMAIN database) =>
             reply'.sess = 0 /\ reply'.error # "none"]_vars

\* two descriptors are registered and a relay of one of them has started
C15_Witness ==
    /\ Cardinality(DOMAIN database) = 2
    /\ reply.ep = "stream"
    /\ reply.sess # 0
    /\ sessions[reply.sess].pc = "start"
    /\ sessions[reply.sess].url = database[reply.sid].file_url

(* ------------------------------ C16 ------------------------------------ *)
\* C16: every response of /info/{video_id} is a 200 with a status field:
\* "success" with an audio and a video relay URL of registered streams of the
\* same video id, or "error" with a message.
C16_StatusEnvelope ==
    reply.ep = "info" =>
        /\ reply.http = 200
        /\ \/ /\ reply.status = "error"
              /\ reply.message # "none"
              /\ reply.links = <<>>
           \/ /\ reply.status = "success"
              /\ Len(reply.links) = 2
              /\ LinkIds(reply) \subseteq DOMAIN database
              /\ \E v \in VideoIds :
                    /\ database[reply.links[1][2]].file_name = FileName(v, "mp3")
                    /\ database[reply.links[2][2]].file_name = FileName(v, "mp4")

\* the extractor found no video URL: an error envelope, not an HTTP error
C16_Witness ==
    /\ reply.ep = "info"
    /\ reply.status = "error"
    /\ reply.message = "Failed to get video URL"

(* ------------------------------ C17 ------------------------------------ *)
\* what a generator holds is explained by its own history alone
SessionLocal(s) ==
    LET ss == sessions[s] IN
      /\ \A idx \in ss.received :
            idx < ss.c_id + 2 /\ \E k \in DOMAIN ss.out : ss.out[k] = idx
      /\ ss.pc = "idle" => ss = IdleSession
      /\ ss.pc # "idle" => ss.url \in Urls

\* C17: concurrent sessions are independent: a step changes at most one
\* session, a session step leaves the registry alone, a registry write
\* changes no session (in particular not the remote URL of a started one),
\* and a session's cursor and deliveredSet follow from its own fetches.
C17_SessionsIndependent ==
    /\ [](\A s \in SessionIds : SessionLocal(s))
    /\ [][/\ \A s, t \in SessionIds :
                (sessions'[s] # sessions[s] /\ sessions'[t] # sessions[t])
                    => s = t
          /\ database' # database => sessions' = sessions
          /\ sessions' # sessions => database' = database
          /\ \A s \in SessionIds :
                (sessions[s].pc # "idle" /\ sessions'[s].pc # "idle")
                    => sessions'[s].url = sessions[s].url]_vars

\* two sessions run at once on different URLs and have delivered differently
C17_Witness ==
    /\ sessions[1].pc \notin {"idle", "start", "done", "error"}
    /\ sessions[2].pc \notin {"idle", "start", "done", "error"}
    /\ sessions[1].url # sessions[2].url
    /\ sessions[1].received = {0}
    /\ sessions[2].received = {1}

(* ------------------------------ C20 ------------------------------------ *)
\* ids registered by the step
NewIds == DOMAIN database' \ DOMAIN database

\* C20: a /youtube call that returns the empty result and an /info call that
\* returns status = error add nothing to the registry; a successful /youtube
\* adds exactly one entry and a successful /info exactly two, with distinct
\* ids, named <video_id>.mp3 and <video_id>.mp4, the ids being those of the
\* returned relay URLs; nothing else writes the registry.
C20_FailedResolutionNoEntry ==
    [][/\ database' # database =>
             (Answers("youtube") \/ Answers("info")) /\ reply'.links # <<>>
       /\ (Answers("youtube") /\ reply'.links = <<>>) => database' = database
       /\ (Answers("info") /\ reply'.status # "success") => database' = database
       /\ (Answers("youtube") /\ reply'.links # <<>>) =>
             /\ Cardinality(NewIds) = 1
             /\ NewIds = LinkIds(reply')
       /\ (Answers("info") /\ reply'.status = "success") =>
             /\ Cardinality(NewIds) = 2
             /\ NewIds = LinkIds(reply')
             /\ reply'.links[1] # reply'.links[2]
             /\ \E v \in VideoIds :
                   /\ database'[reply'.links[1][2]].file_name = <<v, ".", "mp3">>
                   /\ database'[reply'.links[2][2]].file_name = <<v, ".", "mp4">>]_vars

\* a successful /info has just registered its two streams
C20_Witness ==
    /\ reply.ep = "info"
    /\ reply.status = "success"
    /\ DOMAIN database = LinkIds(reply)
    /\ Cardinality(DOMAIN database) = 2

====
